---- MODULE Spec2Model ----
(***************************************************************************)
(* Model of rewd_controllers::GravityCompensationController                *)
(* (src/rewd_controllers/src/gravity_compensation_controller.cpp).         *)
(*                                                                         *)
(* The controller has two entry points: init, which loads the robot        *)
(* description, resolves the controlled DOFs and acquires the hardware     *)
(* handles, and update, which runs once per control tick.  init is called  *)
(* once, on a freshly constructed instance, and update afterwards; the     *)
(* code of update does not look at what init returned, so the model lets   *)
(* update run after a failed init as well.  Where update then dereferences *)
(* a null pointer or indexes past controlled_joint_handles_ the behaviour  *)
(* is undefined: the effects up to that point are kept and the process     *)
(* either dies or goes on.                                                 *)
(*                                                                         *)
(* The dynamics engine and the hardware interfaces are libraries.  They    *)
(* are modelled by their documented behaviour:                             *)
(*   - Skeleton::getDof(name) returns the DOF of that name or nullptr;     *)
(*   - Group::addDof registers a DOF only when it is not yet in the group  *)
(*     and otherwise warns and returns false (the library as built for     *)
(*     release, where its assertions are compiled out);                    *)
(*   - std::map::emplace inserts only when the key is not yet present;     *)
(*   - getHandle(name) throws when the name is not registered;             *)
(*   - computeInverseDynamics is an uninterpreted function of the state    *)
(*     (positions, velocities, accelerations) the skeleton holds when it   *)
(*     is called: the generalized force of a DOF is the term               *)
(*     [dof, q, dq, ddq].                                                  *)
(*                                                                         *)
(* Spec is the controller in normal operation.  FaultSpec is the           *)
(* controller with DOF lookups that may come back empty during a tick, the *)
(* case the check at line 124 of the source defends against and that Spec  *)
(* never reaches.                                                          *)
(***************************************************************************)
EXTENDS Integers, Sequences, FiniteSets, TLC

\* Longest 'joints' list the parameter server holds.
MaxJoints == 2
\* Sensed positions and velocities range over 0..MaxVal.
MaxVal == 1

Vals == 0..MaxVal

\* Joint names known anywhere in the system; "gripper" is in no model.
Names == {"shoulder", "elbow", "gripper"}

\* The joints the robot hardware can register in its interfaces.
HwJoints == {"shoulder", "elbow"}

\* The DOFs, in skeleton order, of the model the URDF document describes.
UrdfDofs == <<"shoulder", "elbow">>

Range(s) == {s[i] : i \in DOMAIN s}

\* Value of the description parameter: not set, set to a document the loader
\* rejects, or set to the URDF of the robot.
Descriptions == {"absent", "garbage", "urdf"}

JointLists == UNION {[1..n -> Names] : n \in 0..MaxJoints}

\* Value of the 'joints' parameter: not set, or a list of names.
JointsParams == {[present |-> FALSE, value |-> <<>>]}
                  \cup {[present |-> TRUE, value |-> l] : l \in JointLists}

-----------------------------------------------------------------------------
(* The dynamics engine *)

\* Result of a DOF lookup that finds nothing (nullptr).
NullDof == "nullptr"

\* The generalized force computeInverseDynamics assigns to DOF d in the
\* state (q, dq, ddq): an uninterpreted term of the whole model state.
TauTerm(d, q, dq, ddq) == [dof |-> d, solved |-> TRUE, q |-> q, dq |-> dq, ddq |-> ddq]

\* The force of a DOF no solve has computed yet.
ZeroTau(d, dofs) ==
    [dof |-> d, solved |-> FALSE,
     q |-> [x \in Range(dofs) |-> 0], dq |-> [x \in Range(dofs) |-> 0],
     ddq |-> [x \in Range(dofs) |-> 0]]

\* A skeleton at its default state.
NewSkeleton(dofs) ==
    [null |-> FALSE, dofs |-> dofs,
     q   |-> [d \in Range(dofs) |-> 0],
     dq  |-> [d \in Range(dofs) |-> 0],
     ddq |-> [d \in Range(dofs) |-> 0],
     tau |-> [d \in Range(dofs) |-> ZeroTau(d, dofs)]]

\* A null skeleton pointer.
NullSkeleton == [NewSkeleton(<<>>) EXCEPT !.null = TRUE]

\* DartLoader::parseSkeletonString: a skeleton, or null when the document
\* does not parse.
parseSkeletonString(robot_description) ==
    IF robot_description = "urdf" THEN NewSkeleton(UrdfDofs) ELSE NullSkeleton

\* Skeleton::getDof(name); lost is the set of names for which the lookup
\* comes back empty although the DOF was there (empty in normal operation).
getDof(skel, name, lost) ==
    IF name \in Range(skel.dofs) /\ name \notin lost THEN name ELSE NullDof

\* A null group pointer and Group::create.
NullGroup == [null |-> TRUE, dofs |-> <<>>]
GroupCreate == [null |-> FALSE, dofs |-> <<>>]

\* (mutation) the DOF is put in front of the group instead of at its end.
addDofFront(group, dof) ==
    IF dof \in Range(group.dofs) THEN group
    ELSE [group EXCEPT !.dofs = <<dof>> \o @]

\* Group::addDof: a DOF already in the group is not registered again.
addDof(group, dof) ==
    IF dof \in Range(group.dofs) THEN group
    ELSE [group EXCEPT !.dofs = Append(@, dof)]

\* std::map::emplace: the first entry of a key wins.
emplace(map, key, value) ==
    IF key \in DOMAIN map THEN map ELSE map @@ (key :> value)

EmptyMap == [k \in {} |-> 0]

-----------------------------------------------------------------------------
(* The controller *)

VARIABLES
    initResult,                 \* what init returned: "notcalled", "true", "false"
    crashed,                    \* the process died in undefined behaviour
    param_description,          \* parameter server: the description parameter
    param_joints,               \* parameter server: the 'joints' parameter
    effort_interface,           \* joints registered in the EffortJointInterface
    state_interface,            \* joints registered in the JointStateInterface
    skeleton_,                  \* member: the full model
    controlled_skeleton_,       \* member: the group of controlled DOFs
    controlled_joint_map_,      \* member: DOF name -> index in the group
    controlled_joint_handles_,  \* member: command handles (by joint name)
    joint_state_handles_,       \* member: read-only state handles (by joint name)
    sensed,                     \* positions/velocities the handles report in the tick
    command,                    \* last command written to each actuator
    tick                        \* what the latest update call did

vars == <<initResult, crashed, param_description, param_joints,
          effort_interface, state_interface, skeleton_, controlled_skeleton_,
          controlled_joint_map_, controlled_joint_handles_,
          joint_state_handles_, sensed, command, tick>>

\* The data members of a constructed instance.
Members(skel, group, map, handles, state_handles) ==
    [skeleton_ |-> skel, controlled_skeleton_ |-> group,
     controlled_joint_map_ |-> map, controlled_joint_handles_ |-> handles,
     joint_state_handles_ |-> state_handles]

\* (mutation) the index is taken after the increment without the - 1.
MapIndexOffByOne(group) == Len(group.dofs)

\* The index init records for the DOF it has just added: getNumDofs() - 1.
MapIndex(group) == Len(group.dofs) - 1

\* The loop that builds the controlled group and the name -> index map.
\* It stops at the first name the model does not know; what was built so far
\* stays in the members.
RECURSIVE ResolveControlled(_, _, _, _)
ResolveControlled(skel, dof_names, group, map) ==
    IF dof_names = <<>> THEN [ok |-> TRUE, group |-> group, map |-> map]
    ELSE LET dof == getDof(skel, Head(dof_names), {}) IN
         IF dof = NullDof THEN [ok |-> FALSE, group |-> group, map |-> map]
         ELSE LET added == addDof(group, dof) IN
              ResolveControlled(skel, Tail(dof_names), added,
                                emplace(map, dof, MapIndex(added)))

\* (mutation) a controlled DOF without a command handle is skipped instead of
\* failing init.
RECURSIVE GetCommandHandlesSkip(_, _, _)
GetCommandHandlesSkip(dofs, ei, handles) ==
    IF dofs = <<>> THEN [ok |-> TRUE, handles |-> handles]
    ELSE IF Head(dofs) \notin ei
         THEN GetCommandHandlesSkip(Tail(dofs), ei, handles)
         ELSE GetCommandHandlesSkip(Tail(dofs), ei, Append(handles, Head(dofs)))

\* The loop that acquires the command handle of every controlled DOF; a
\* missing handle (getHandle throws) ends init with failure.
RECURSIVE GetCommandHandles(_, _, _)
GetCommandHandles(dofs, ei, handles) ==
    IF dofs = <<>> THEN [ok |-> TRUE, handles |-> handles]
    ELSE IF Head(dofs) \notin ei
         THEN [ok |-> FALSE, handles |-> handles]
         ELSE GetCommandHandles(Tail(dofs), ei, Append(handles, Head(dofs)))

\* (mutation) the default-constructed handle is pushed when getHandle throws.
RECURSIVE GetStateHandlesNoSkip(_, _, _)
GetStateHandlesNoSkip(dofs, jsi, handles) ==
    IF dofs = <<>> THEN handles
    ELSE GetStateHandlesNoSkip(Tail(dofs), jsi, Append(handles, Head(dofs)))

\* The loop that acquires a read-only state handle for every DOF of the
\* model; a missing handle is skipped.
RECURSIVE GetStateHandles(_, _, _)
GetStateHandles(dofs, jsi, handles) ==
    IF dofs = <<>> THEN handles
    ELSE IF Head(dofs) \notin jsi
         THEN GetStateHandles(Tail(dofs), jsi, handles)
         ELSE GetStateHandles(Tail(dofs), jsi, Append(handles, Head(dofs)))

\* The body of init on an instance with members m: the value returned and
\* the members it leaves behind.
InitBody(m, robot_description, joints, ei, jsi) ==
    IF robot_description = "absent"
    THEN [ret |-> FALSE, m |-> m]
    ELSE
    LET skel == parseSkeletonString(robot_description)
        m1 == [m EXCEPT !.skeleton_ = skel]
    IN
    IF skel.null THEN [ret |-> FALSE, m |-> m1]
    ELSE IF ~joints.present THEN [ret |-> FALSE, m |-> m1]
    ELSE
    LET res == ResolveControlled(skel, joints.value, GroupCreate,
                                 m.controlled_joint_map_)
        m2 == [m1 EXCEPT !.controlled_skeleton_ = res.group,
                         !.controlled_joint_map_ = res.map]
    IN
    IF ~res.ok THEN [ret |-> FALSE, m |-> m2]
    ELSE
    LET got == GetCommandHandles(res.group.dofs, ei, m.controlled_joint_handles_)
        m3 == [m2 EXCEPT !.controlled_joint_handles_ = got.handles]
    IN
    IF ~got.ok THEN [ret |-> FALSE, m |-> m3]
    ELSE [ret |-> TRUE,
          m |-> [m3 EXCEPT !.joint_state_handles_ =
                     GetStateHandles(skel.dofs, jsi, m.joint_state_handles_)]]

ThisMembers ==
    Members(skeleton_, controlled_skeleton_, controlled_joint_map_,
            controlled_joint_handles_, joint_state_handles_)

\* GravityCompensationController::init(robot, n)
init ==
    /\ initResult = "notcalled"
    /\ \E d \in Descriptions, j \in JointsParams,
          ei \in SUBSET HwJoints, jsi \in SUBSET HwJoints :
         LET r == InitBody(ThisMembers, d, j, ei, jsi) IN
         /\ param_description' = d
         /\ param_joints' = j
         /\ effort_interface' = ei
         /\ state_interface' = jsi
         /\ initResult' = IF r.ret THEN "true" ELSE "false"
         /\ skeleton_' = r.m.skeleton_
         /\ controlled_skeleton_' = r.m.controlled_skeleton_
         /\ controlled_joint_map_' = r.m.controlled_joint_map_
         /\ controlled_joint_handles_' = r.m.controlled_joint_handles_
         /\ joint_state_handles_' = r.m.joint_state_handles_
    /\ UNCHANGED <<crashed, sensed, command, tick>>

-----------------------------------------------------------------------------
(* update *)

\* The command register of an actuator nothing has been written to.
NoCommand == [dof |-> "none", solved |-> FALSE, q |-> <<>>, dq |-> <<>>, ddq |-> <<>>]

\* An entry of the record of a tick: "sync" (a DOF received its sensed
\* state), "solve" (computeInverseDynamics was called) or "cmd" (setCommand
\* was called on the handle of the joint).
Event(ev, joint) == [ev |-> ev, joint |-> joint]

\* (mutation) position and velocity are exchanged.
SyncDofSwapped(skel, dof, pos, vel) ==
    [skel EXCEPT !.q[dof] = vel, !.dq[dof] = pos, !.ddq[dof] = 0]

\* dof->setPosition(handle.getPosition()); dof->setVelocity(handle.getVelocity());
\* dof->setAcceleration(0.)
SyncDof(skel, dof, pos, vel) ==
    [skel EXCEPT !.q[dof] = pos, !.dq[dof] = vel, !.ddq[dof] = 0]

\* (mutation) the state handles are synchronized as well.
SyncedHandlesAll(handles, state_handles) == handles \o state_handles

\* The handles the first loop of update walks: the command handles only.
SyncedHandles(handles, state_handles) == handles

\* (mutation) a failed lookup ends the loop instead of skipping the DOF.
RECURSIVE SyncLoopStopOnNull(_, _, _, _, _)
SyncLoopStopOnNull(skel, handles, hw, lost, log) ==
    IF handles = <<>> THEN [skel |-> skel, log |-> log, ub |-> FALSE]
    ELSE IF skel.null THEN [skel |-> skel, log |-> log, ub |-> TRUE]
    ELSE LET dof == getDof(skel, Head(handles), lost) IN
         IF dof = NullDof
         THEN [skel |-> skel, log |-> log, ub |-> FALSE]
         ELSE SyncLoopStopOnNull(
                  SyncDof(skel, dof, hw.pos[Head(handles)], hw.vel[Head(handles)]),
                  Tail(handles), hw, lost, Append(log, Event("sync", dof)))

\* The first loop of update.  A lookup that finds no DOF skips the handle;
\* a lookup through a null skeleton_ is undefined behaviour (ub).
RECURSIVE SyncLoop(_, _, _, _, _)
SyncLoop(skel, handles, hw, lost, log) ==
    IF handles = <<>> THEN [skel |-> skel, log |-> log, ub |-> FALSE]
    ELSE IF skel.null THEN [skel |-> skel, log |-> log, ub |-> TRUE]
    ELSE LET dof == getDof(skel, Head(handles), lost) IN
         IF dof = NullDof
         THEN SyncLoop(skel, Tail(handles), hw, lost, log)
         ELSE SyncLoop(
                  SyncDof(skel, dof, hw.pos[Head(handles)], hw.vel[Head(handles)]),
                  Tail(handles), hw, lost, Append(log, Event("sync", dof)))

\* Skeleton::computeInverseDynamics: every DOF gets the generalized force of
\* the state the skeleton holds now.
computeInverseDynamics(skel) ==
    [skel EXCEPT !.tau = [d \in Range(skel.dofs) |->
                             TauTerm(d, skel.q, skel.dq, skel.ddq)]]

\* (mutation) the last controlled DOF is left out.
NumCommandsShort(group) == Len(group.dofs) - 1

\* The bound of the second loop: controlled_skeleton_->getNumDofs().
NumCommands(group) == Len(group.dofs)

\* controlled_joint_handles_[i] (i counts from 1 here, from 0 in the code).
HandleAt(handles, i) == handles[i]

\* The second loop of update, from index i on.  An index past the end of
\* controlled_joint_handles_ is undefined behaviour (ub).
RECURSIVE CommandLoop(_, _, _, _, _, _)
CommandLoop(i, skel, group, handles, cmd, log) ==
    IF i > NumCommands(group) THEN [cmd |-> cmd, log |-> log, ub |-> FALSE]
    ELSE IF i > Len(handles) THEN [cmd |-> cmd, log |-> log, ub |-> TRUE]
    ELSE LET dof == group.dofs[i]
             effort_inversedynamics == skel.tau[dof]
             joint_handle == HandleAt(handles, i)
         IN CommandLoop(i + 1, skel, group, handles,
                        [cmd EXCEPT ![joint_handle] = effort_inversedynamics],
                        Append(log, Event("cmd", joint_handle)))

\* The state of the model when the solve is called (ran: whether it was).
AtSolve(ran, skel) == [ran |-> ran, q |-> skel.q, dq |-> skel.dq, ddq |-> skel.ddq]

\* (mutation) the forces are read and commanded before the solve.
UpdateBodySolveLast(m, hw, cmd, lost) ==
    LET s == SyncLoop(m.skeleton_,
                      SyncedHandles(m.controlled_joint_handles_, m.joint_state_handles_),
                      hw, lost, <<>>)
        c == CommandLoop(1, s.skel, m.controlled_skeleton_,
                         m.controlled_joint_handles_, cmd, s.log)
    IN [skel |-> computeInverseDynamics(s.skel), cmd |-> c.cmd,
        log |-> Append(c.log, Event("solve", "-")),
        atSolve |-> AtSolve(TRUE, s.skel), ub |-> c.ub]

\* The body of update on an instance with members m, with the handles
\* reporting hw: the skeleton and the command registers it leaves, the
\* record of what it did, and whether it ran into undefined behaviour (the
\* effects up to that point are kept).
UpdateBody(m, hw, cmd, lost) ==
    LET s == SyncLoop(m.skeleton_,
                      SyncedHandles(m.controlled_joint_handles_, m.joint_state_handles_),
                      hw, lost, <<>>)
    IN
    IF s.ub \/ s.skel.null
    THEN [skel |-> s.skel, cmd |-> cmd, log |-> s.log,
          atSolve |-> AtSolve(FALSE, s.skel), ub |-> TRUE]
    ELSE
    LET solved == computeInverseDynamics(s.skel)
        log2 == Append(s.log, Event("solve", "-"))
    IN
    IF m.controlled_skeleton_.null
    THEN [skel |-> solved, cmd |-> cmd, log |-> log2,
          atSolve |-> AtSolve(TRUE, s.skel), ub |-> TRUE]
    ELSE
    LET c == CommandLoop(1, solved, m.controlled_skeleton_,
                         m.controlled_joint_handles_, cmd, log2)
    IN [skel |-> solved, cmd |-> c.cmd, log |-> c.log,
        atSolve |-> AtSolve(TRUE, s.skel), ub |-> c.ub]

\* The joints whose sensors the controller holds a handle to.
Observable == Range(controlled_joint_handles_) \cup Range(joint_state_handles_)

\* What the hardware may report in a tick when every reading is drawn from
\* readings (joints the controller cannot observe are left at 0).
SensedValues(readings) ==
    LET OneEach == {f \in [Names -> readings \cup {0}] :
                       \A n \in Names \ Observable : f[n] = 0}
    IN {[pos |-> p, vel |-> v] : p \in OneEach, v \in OneEach}

\* GravityCompensationController::update(time, period), with the handles
\* reporting one of the values in inputs and the DOF lookups failing for the
\* names in lost.
update(lost, inputs) ==
    /\ initResult # "notcalled"
    /\ ~crashed
    /\ \E hw \in inputs :
         LET r == UpdateBody(ThisMembers, hw, command, lost) IN
         /\ sensed' = hw
         /\ skeleton_' = r.skel
         /\ command' = r.cmd
         /\ crashed' \in (IF r.ub THEN BOOLEAN ELSE {FALSE})
         /\ tick' = [ran |-> TRUE, log |-> r.log, atSolve |-> r.atSolve,
                     lost |-> lost, recovered |-> tick.lost \ lost, ub |-> r.ub]
    /\ UNCHANGED <<initResult, param_description, param_joints,
                   effort_interface, state_interface, controlled_skeleton_,
                   controlled_joint_map_, controlled_joint_handles_,
                   joint_state_handles_>>

\* A tick in normal operation: every lookup answers.
Update == update({}, SensedValues(Vals))

\* A tick in which the lookups of some controlled DOFs (possibly none) come
\* back empty; the sensors report the lowest or the highest reading.
FaultyUpdate ==
    \E lost \in SUBSET Range(controlled_joint_handles_) :
        update(lost, SensedValues({0, MaxVal}))

\* The instance as the constructor leaves it.
Init ==
    /\ initResult = "notcalled"
    /\ crashed = FALSE
    /\ param_description = "absent"
    /\ param_joints = [present |-> FALSE, value |-> <<>>]
    /\ effort_interface = {}
    /\ state_interface = {}
    /\ skeleton_ = NullSkeleton
    /\ controlled_skeleton_ = NullGroup
    /\ controlled_joint_map_ = EmptyMap
    /\ controlled_joint_handles_ = <<>>
    /\ joint_state_handles_ = <<>>
    /\ sensed = [pos |-> [n \in Names |-> 0], vel |-> [n \in Names |-> 0]]
    /\ command = [n \in Names |-> NoCommand]
    /\ tick = [ran |-> FALSE, log |-> <<>>, atSolve |-> AtSolve(FALSE, NullSkeleton),
               lost |-> {}, recovered |-> {}, ub |-> FALSE]

Next == init \/ Update

Spec == Init /\ [][Next]_vars

FaultNext == init \/ FaultyUpdate

\* The controller with DOF lookups that may fail during a tick.
FaultSpec == Init /\ [][FaultNext]_vars

-----------------------------------------------------------------------------
(* Vocabulary of the properties *)

Called == initResult # "notcalled"
Succeeded == initResult = "true"

\* The DOFs of the model the configured description parses to.
ModelDofs == Range(parseSkeletonString(param_description).dofs)

\* The configured 'joints' list and the controlled-DOF list init built.
ConfiguredJoints == param_joints.value
ControlledDofs == controlled_skeleton_.dofs

NoRepeats(l) == \A i, j \in DOMAIN l : l[i] = l[j] => i = j

\* The configuration init was given has a fatal error.
FatalError ==
    \/ param_description = "absent"
    \/ parseSkeletonString(param_description).null
    \/ ~param_joints.present
    \/ \E n \in Range(ConfiguredJoints) : n \notin ModelDofs
    \/ \E n \in Range(ConfiguredJoints) : n \notin effort_interface

\* The entries of the latest tick's record of one kind, in order.
EventsOf(kind) == SelectSeq(tick.log, LAMBDA e : e.ev = kind)
JointsOf(events) == [i \in DOMAIN events |-> events[i].joint]

\* The DOFs that received sensed state in the latest tick.
SyncedInTick == Range(JointsOf(EventsOf("sync")))

\* Position of the first entry of a kind in the latest tick's record (0: none).
FirstIndex(kind) ==
    IF \E i \in DOMAIN tick.log : tick.log[i].ev = kind
    THEN CHOOSE i \in DOMAIN tick.log :
            /\ tick.log[i].ev = kind
            /\ \A j \in 1..(i - 1) : tick.log[j].ev # kind
    ELSE 0

-----------------------------------------------------------------------------
(* C1 *)

\* C1 as stated: whenever the description parses, 'joints' is present, every
\* listed name is a DOF of the model and has an effort handle, init returns
\* success and the controlled-DOF list equals the 'joints' list.
C1_ListEqualsJoints ==
    (Called /\ ~FatalError) =>
        (Succeeded /\ ControlledDofs = ConfiguredJoints)

\* C1 (amended): under the same conditions and when no name occurs twice in
\* the 'joints' list, init returns success and the controlled-DOF list equals
\* the 'joints' list, element by element and in length.
C1_ListEqualsJointsNoRepeats ==
    (Called /\ ~FatalError /\ NoRepeats(ConfiguredJoints)) =>
        (Succeeded /\ ControlledDofs = ConfiguredJoints)

\* init succeeded on a list of two different joints in the order opposite to
\* the model's.
C1_Witness ==
    /\ Succeeded
    /\ ConfiguredJoints = <<"elbow", "shoulder">>
    /\ ControlledDofs = <<"elbow", "shoulder">>

-----------------------------------------------------------------------------
(* C2 *)

\* C2: init returns failure whenever the configuration has a fatal error
\* (description absent or unparseable, 'joints' absent, a listed name that is
\* no DOF of the model, a controlled DOF without an effort handle).
C2_FatalErrorFails == (Called /\ FatalError) => initResult = "false"

\* init failed on a configuration whose only fatal error is a controlled DOF
\* without an effort handle.
C2_Witness ==
    /\ initResult = "false"
    /\ param_description = "urdf"
    /\ param_joints.present
    /\ Range(ConfiguredJoints) \subseteq ModelDofs
    /\ \E n \in Range(ConfiguredJoints) : n \notin effort_interface

-----------------------------------------------------------------------------
(* C3 *)

\* C3 as stated: without a fatal error init succeeds whatever state handles
\* are missing, and every DOF of the model without a state handle is left out
\* of joint_state_handles_ and is not state-synchronized by any update.
C3_NoStateHandleNeverSynced ==
    (Called /\ ~FatalError) =>
        /\ Succeeded
        /\ \A d \in ModelDofs \ state_interface :
              /\ d \notin Range(joint_state_handles_)
              /\ d \notin SyncedInTick

\* C3 (amended): without a fatal error init succeeds whatever state handles
\* are missing; every DOF of the model without a state handle is left out of
\* joint_state_handles_, and, unless it is a controlled DOF (update
\* synchronizes those through their command handles), it is not
\* state-synchronized by any update.
C3_UncontrolledNoStateHandleNeverSynced ==
    (Called /\ ~FatalError) =>
        /\ Succeeded
        /\ \A d \in ModelDofs \ state_interface :
              /\ d \notin Range(joint_state_handles_)
              /\ d \notin Range(ControlledDofs) => d \notin SyncedInTick

\* A tick ran after an init that found no state handle for an uncontrolled
\* DOF, and synchronized another DOF.
C3_Witness ==
    /\ Succeeded
    /\ tick.ran
    /\ SyncedInTick # {}
    /\ \E d \in ModelDofs \ state_interface : d \notin Range(ControlledDofs)

-----------------------------------------------------------------------------
(* C4 *)

\* C4: in every update after a successful init, when the solve is invoked
\* every controlled DOF has acceleration zero and the position and velocity
\* its handle reported in that tick.
C4_StateAtSolve ==
    (Succeeded /\ tick.ran) =>
        /\ tick.atSolve.ran
        /\ \A d \in Range(ControlledDofs) :
              /\ tick.atSolve.ddq[d] = 0
              /\ tick.atSolve.q[d] = sensed.pos[d]
              /\ tick.atSolve.dq[d] = sensed.vel[d]

\* A tick solved with a controlled DOF at a sensed position and velocity that
\* differ from each other and from the other controlled DOF's.
C4_Witness ==
    /\ Succeeded
    /\ tick.atSolve.ran
    /\ Len(ControlledDofs) = 2
    /\ sensed.pos["shoulder"] = 1 /\ sensed.vel["shoulder"] = 0
    /\ sensed.pos["elbow"] = 0 /\ sensed.vel["elbow"] = 1

-----------------------------------------------------------------------------
(* C5 *)

\* C5: in every update after a successful init the commands written are one
\* per controlled DOF, in the order of the controlled-DOF list.
C5_OneCommandPerDof ==
    (Succeeded /\ tick.ran) => JointsOf(EventsOf("cmd")) = ControlledDofs

\* A tick wrote two commands, in an order that is not the model's.
C5_Witness ==
    /\ Succeeded
    /\ tick.ran
    /\ ControlledDofs = <<"elbow", "shoulder">>
    /\ Len(EventsOf("cmd")) = 2

-----------------------------------------------------------------------------
(* C6 *)

\* C6: in every update after a successful init, the command written to the
\* handle of controlled joint J is the force the solve of that tick returns
\* for the DOF named J, the solve running on the sensed state with zero
\* acceleration; no command is written before the solve.
C6_CommandIsSolvedForce ==
    (Succeeded /\ tick.ran) =>
        /\ Len(EventsOf("solve")) = 1
        /\ \A i \in DOMAIN tick.log :
              tick.log[i].ev = "cmd" => FirstIndex("solve") < i
        /\ \A j \in Range(ControlledDofs) :
              /\ j \in Range(controlled_joint_handles_)
              /\ command[j] = TauTerm(j, tick.atSolve.q, tick.atSolve.dq,
                                      tick.atSolve.ddq)
              /\ tick.atSolve.q[j] = sensed.pos[j]
              /\ tick.atSolve.dq[j] = sensed.vel[j]
              /\ tick.atSolve.ddq[j] = 0

\* A tick commanded a controlled joint that was sensed away from its default
\* state.
C6_Witness ==
    /\ Succeeded
    /\ tick.ran
    /\ "shoulder" \in Range(ControlledDofs)
    /\ sensed.pos["shoulder"] = 1
    /\ command["shoulder"].solved
    /\ command["shoulder"].q["shoulder"] = 1

-----------------------------------------------------------------------------
(* C7 *)

\* C7: after an init that returned failure, no update call runs the solve or
\* writes a torque command.
C7_NoTickAfterFailedInit ==
    initResult = "false" =>
        /\ EventsOf("solve") = <<>>
        /\ EventsOf("cmd") = <<>>

-----------------------------------------------------------------------------
(* C8 *)

\* What a tick after a successful init, in which the lookups of the DOFs in
\* tick'.lost found nothing, does to the controlled DOFs.
SkipsLostDofsOnly ==
    /\ ~tick'.ub
    /\ ~crashed'
    /\ tick'.atSolve.ran
    /\ Len(SelectSeq(tick'.log, LAMBDA e : e.ev = "solve")) = 1
    /\ \A d \in Range(ControlledDofs) :
          IF d \in tick'.lost
          THEN /\ skeleton_'.q[d] = skeleton_.q[d]
               /\ skeleton_'.dq[d] = skeleton_.dq[d]
               /\ skeleton_'.ddq[d] = skeleton_.ddq[d]
               /\ \A i \in DOMAIN tick'.log :
                     tick'.log[i] # Event("sync", d)
          ELSE /\ skeleton_'.q[d] = sensed'.pos[d]
               /\ skeleton_'.dq[d] = sensed'.vel[d]
               /\ skeleton_'.ddq[d] = 0
               /\ \E i \in DOMAIN tick'.log :
                     tick'.log[i] = Event("sync", d)

\* C8: when during an update the lookup of a controlled DOF finds nothing,
\* that DOF's position, velocity and acceleration are left as they were, every
\* other controlled DOF is synchronized, the solve runs and update returns;
\* a DOF whose lookup answers again in a later tick is synchronized in it.
C8_LostDofSkippedForTheTick == [][Succeeded => SkipsLostDofsOnly]_vars

\* A tick skipped one DOF, which kept a state that is not the sensed one, and
\* synchronized the other, which the tick before had skipped.
C8_Witness ==
    /\ Succeeded
    /\ tick.ran
    /\ tick.recovered = {"elbow"}
    /\ tick.lost = {"shoulder"}
    /\ SyncedInTick = {"elbow"}
    /\ skeleton_.q["shoulder"] # sensed.pos["shoulder"]
    /\ skeleton_.q["elbow"] = sensed.pos["elbow"]

-----------------------------------------------------------------------------
(* C9 *)

\* C9: update never writes the state of a DOF outside the controlled list:
\* every uncontrolled DOF stays at the model's default state, with or without
\* a state handle, and no tick synchronizes it.
C9_UncontrolledDofsUntouched ==
    \A d \in Range(skeleton_.dofs) \ Range(ControlledDofs) :
        /\ skeleton_.q[d] = NewSkeleton(skeleton_.dofs).q[d]
        /\ skeleton_.dq[d] = NewSkeleton(skeleton_.dofs).dq[d]
        /\ skeleton_.ddq[d] = NewSkeleton(skeleton_.dofs).ddq[d]
        /\ d \notin SyncedInTick

\* A tick ran while an uncontrolled DOF with a state handle was sensed away
\* from the default state.
C9_Witness ==
    /\ Succeeded
    /\ tick.ran
    /\ ControlledDofs = <<"shoulder">>
    /\ "elbow" \in Range(joint_state_handles_)
    /\ sensed.pos["elbow"] = 1
    /\ sensed.vel["elbow"] = 1

-----------------------------------------------------------------------------
(* C10 *)

\* C10: after a successful init and after any number of updates, the command
\* handle list and the controlled-DOF list have the same length and the same
\* names position by position, the map sends each controlled DOF's name to
\* its (0-based) index, and no update indexes past the handle list.
C10_ListsAligned ==
    Succeeded =>
        /\ Len(controlled_joint_handles_) = Len(ControlledDofs)
        /\ \A i \in DOMAIN ControlledDofs :
              /\ controlled_joint_handles_[i] = ControlledDofs[i]
              /\ ControlledDofs[i] \in DOMAIN controlled_joint_map_
              /\ controlled_joint_map_[ControlledDofs[i]] = i - 1
        /\ DOMAIN controlled_joint_map_ = Range(ControlledDofs)
        /\ ~tick.ub
        /\ ~crashed

\* A tick ran on two controlled DOFs.
C10_Witness ==
    /\ Succeeded
    /\ tick.ran
    /\ Len(ControlledDofs) = 2
    /\ Len(controlled_joint_handles_) = 2

=============================================================================
